---- MODULE Spec2Model ----
\* Model of tanglism-morph/src/parting.rs: the parting (fractal) shaper that
\* turns a candle sequence into a sequence of Partings.
EXTENDS Integers, Sequences, FiniteSets, TLC

\* ---------------------------------------------------------------- bounds
\* Longest input fed to the shaper under Spec.
MaxLen == 5
\* Prices (high, low) range over 1..MaxPrice under Spec.
MaxPrice == 4
\* Distance between the timestamps of consecutive well-formed candles.
TsStep == 2
\* Bounds of the unvalidated-input specification SpecAny.
MaxLenAny == 4
MaxPriceAny == 3
MaxTsAny == 2

\* ---------------------------------------------------------------- Option
None == <<>>
Some(x) == <<x>>
is_none(o) == o = <<>>
is_some(o) == o # <<>>
unwrap(o) == o[1]

\* ---------------------------------------------------------------- helpers
\* K { ts, high, low } -> CK
k_to_ck(k) ==
  [start_ts |-> k.ts, end_ts |-> k.ts, extremum_ts |-> k.ts,
   high |-> k.high, low |-> k.low, n |-> 1]

\* inclusive_neighbor_k with the rules of the two directions exchanged.
inclusive_neighbor_k_swapped(k1, k2, up) ==
  IF ~((k1.high >= k2.high /\ k1.low <= k2.low) \/ (k2.high >= k1.high /\ k2.low <= k1.low))
  THEN None
  ELSE
    LET extremum_ts == IF k1.high >= k2.high /\ k1.low <= k2.low
                       THEN k1.extremum_ts ELSE k2.ts
        high == IF ~up THEN (IF k1.high > k2.high THEN k1.high ELSE k2.high)
                       ELSE (IF k1.high < k2.high THEN k1.high ELSE k2.high)
        low  == IF ~up THEN (IF k1.low > k2.low THEN k1.low ELSE k2.low)
                       ELSE (IF k1.low < k2.low THEN k1.low ELSE k2.low)
    IN Some([start_ts |-> k1.start_ts, end_ts |-> k2.ts, extremum_ts |-> extremum_ts,
             high |-> high, low |-> low, n |-> k1.n + 1])

\* inclusive_neighbor_k that keeps the end_ts of k1.
inclusive_neighbor_k_stale_end(k1, k2, up) ==
  IF ~((k1.high >= k2.high /\ k1.low <= k2.low) \/ (k2.high >= k1.high /\ k2.low <= k1.low))
  THEN None
  ELSE
    LET extremum_ts == IF k1.high >= k2.high /\ k1.low <= k2.low
                       THEN k1.extremum_ts ELSE k2.ts
        high == IF up THEN (IF k1.high > k2.high THEN k1.high ELSE k2.high)
                      ELSE (IF k1.high < k2.high THEN k1.high ELSE k2.high)
        low  == IF up THEN (IF k1.low > k2.low THEN k1.low ELSE k2.low)
                      ELSE (IF k1.low < k2.low THEN k1.low ELSE k2.low)
    IN Some([start_ts |-> k1.start_ts, end_ts |-> k1.end_ts, extremum_ts |-> extremum_ts,
             high |-> high, low |-> low, n |-> k1.n + 1])

\* inclusive_neighbor_k with the two choices of extremum_ts exchanged.
inclusive_neighbor_k_ts_swapped(k1, k2, up) ==
  IF ~((k1.high >= k2.high /\ k1.low <= k2.low) \/ (k2.high >= k1.high /\ k2.low <= k1.low))
  THEN None
  ELSE
    LET extremum_ts == IF k1.high >= k2.high /\ k1.low <= k2.low
                       THEN k2.ts ELSE k1.extremum_ts
        high == IF up THEN (IF k1.high > k2.high THEN k1.high ELSE k2.high)
                      ELSE (IF k1.high < k2.high THEN k1.high ELSE k2.high)
        low  == IF up THEN (IF k1.low > k2.low THEN k1.low ELSE k2.low)
                      ELSE (IF k1.low < k2.low THEN k1.low ELSE k2.low)
    IN Some([start_ts |-> k1.start_ts, end_ts |-> k2.ts, extremum_ts |-> extremum_ts,
             high |-> high, low |-> low, n |-> k1.n + 1])

\* inclusive_neighbor_k(k1: &CK, k2: &K, upward) -> Option<CK>
inclusive_neighbor_k(k1, k2, up) ==
  IF ~((k1.high >= k2.high /\ k1.low <= k2.low) \/ (k2.high >= k1.high /\ k2.low <= k1.low))
  THEN None
  ELSE
    LET extremum_ts == IF k1.high >= k2.high /\ k1.low <= k2.low
                       THEN k1.extremum_ts ELSE k2.ts
        high == IF up THEN (IF k1.high > k2.high THEN k1.high ELSE k2.high)
                      ELSE (IF k1.high < k2.high THEN k1.high ELSE k2.high)
        low  == IF up THEN (IF k1.low > k2.low THEN k1.low ELSE k2.low)
                      ELSE (IF k1.low < k2.low THEN k1.low ELSE k2.low)
    IN Some([start_ts |-> k1.start_ts, end_ts |-> k2.ts, extremum_ts |-> extremum_ts,
             high |-> high, low |-> low, n |-> k1.n + 1])

\* parting with the two prices exchanged.
parting_swapped(k1, k2, k3, up) ==
  [start_ts |-> k1.start_ts, end_ts |-> k3.end_ts, extremum_ts |-> k2.extremum_ts,
   extremum_price |-> IF up THEN k2.high ELSE k2.low,
   n |-> k1.n + k2.n + k3.n, top |-> ~up]

\* parting that takes extremum_ts from k1.
parting_first_ts(k1, k2, k3, up) ==
  [start_ts |-> k1.start_ts, end_ts |-> k3.end_ts, extremum_ts |-> k1.extremum_ts,
   extremum_price |-> IF up THEN k2.low ELSE k2.high,
   n |-> k1.n + k2.n + k3.n, top |-> ~up]

\* The Parting literal built in consume.
parting(k1, k2, k3, up) ==
  [start_ts |-> k1.start_ts, end_ts |-> k3.end_ts, extremum_ts |-> k2.extremum_ts,
   extremum_price |-> IF up THEN k2.low ELSE k2.high,
   n |-> k1.n + k2.n + k3.n, top |-> ~up]

\* push at the front of the vector.
push_front(b, p) == <<p>> \o b

\* push that replaces the vector.
push_overwrite(b, p) == <<p>>

\* self.body.push(parting)
push(b, p) == Append(b, p)

\* The window recorded with each emission (history only): the three merged
\* candles the Parting was built from and the branch that followed.
emitted(k1, k2, k3, via) == [k1 |-> k1, k2 |-> k2, k3 |-> k3, via |-> via]

\* turns with the comparisons reversed.
turns_reversed(up, k, ck) == (up /\ k.low > ck.low) \/ (~up /\ k.high < ck.high)

\* The test that decides whether k turns the trend against merged candle ck.
turns(up, k, ck) == (up /\ k.low < ck.low) \/ (~up /\ k.high > ck.high)

\* shift_one without the flip of upward.
shift_one_no_flip(s, k) ==
  [s EXCEPT !.first_k = s.second_k, !.second_k = s.third_k,
            !.third_k = Some(k_to_ck(k))]

\* shift_one with its first two assignments in the other order: second_k takes
\* third_k, then first_k takes second_k, which leaves second_k empty.
shift_one_reordered(s, k) ==
  [s EXCEPT !.first_k = s.third_k, !.second_k = None,
            !.third_k = Some(k_to_ck(k)), !.upward = ~s.upward]

\* shift_one that leaves first_k as it was.
shift_one_stale_first(s, k) ==
  [s EXCEPT !.second_k = s.third_k,
            !.third_k = Some(k_to_ck(k)), !.upward = ~s.upward]

\* consume, third slot filled, k not mergeable, k continues the fractal:
\* shift the window left by one.
shift_one(s, k) ==
  [s EXCEPT !.first_k = s.second_k, !.second_k = s.third_k,
            !.third_k = Some(k_to_ck(k)), !.upward = ~s.upward]

\* shift_two that restarts the window from slot2 instead of slot3.
shift_two_from_second(s, k) ==
  LET k3 == unwrap(s.third_k) IN
  [s EXCEPT !.upward = k.high > k3.high, !.first_k = s.second_k,
            !.second_k = Some(k_to_ck(k)), !.third_k = None]

\* shift_two with the comparison that re-derives upward reversed.
shift_two_inverted(s, k) ==
  LET k3 == unwrap(s.third_k) IN
  [s EXCEPT !.upward = k.high < k3.high, !.first_k = Some(k3),
            !.second_k = Some(k_to_ck(k)), !.third_k = None]

\* consume, third slot filled, k not mergeable, no fractal: shift by two.
shift_two(s, k) ==
  LET k3 == unwrap(s.third_k) IN
  [s EXCEPT !.upward = k.high > k3.high, !.first_k = Some(k3),
            !.second_k = Some(k_to_ck(k)), !.third_k = None]

\* PartingShaper::new
new ==
  [body |-> <<>>, first_k |-> None, second_k |-> None, third_k |-> None,
   upward |-> TRUE, last |-> "new", win |-> <<>>]

\* PartingShaper::consume. s.last names the branch taken.
consume(s, k) ==
  IF is_none(s.first_k)
  THEN [s EXCEPT !.first_k = Some(k_to_ck(k)), !.last = "first"]
  ELSE
  LET k1 == unwrap(s.first_k) IN
  IF is_none(s.second_k)
  THEN LET ck == inclusive_neighbor_k(k1, k, s.upward) IN
       IF is_none(ck)
       THEN [s EXCEPT !.upward = k.high > k1.high, !.second_k = Some(k_to_ck(k)),
                      !.last = "second"]
       ELSE [s EXCEPT !.first_k = ck, !.last = "merge1"]
  ELSE
  LET k2 == unwrap(s.second_k) IN
  IF is_none(s.third_k)
  THEN LET ck == inclusive_neighbor_k(k2, k, s.upward) IN
       IF is_some(ck)
       THEN [s EXCEPT !.second_k = ck, !.last = "merge2"]
       ELSE IF turns(s.upward, k, k2)
       THEN [s EXCEPT !.third_k = Some(k_to_ck(k)), !.upward = ~s.upward,
                      !.last = "third"]
       ELSE [s EXCEPT !.first_k = s.second_k, !.second_k = Some(k_to_ck(k)),
                      !.last = "slide"]
  ELSE
  LET k3 == unwrap(s.third_k)
      ck == inclusive_neighbor_k(k3, k, s.upward) IN
  IF is_some(ck)
  THEN [s EXCEPT !.third_k = ck, !.last = "merge3"]
  ELSE
  LET via == IF turns(s.upward, k, k3) THEN "shift1" ELSE "shift2"
      e == [s EXCEPT !.body = push(s.body, parting(k1, k2, k3, s.upward)),
                     !.win = Append(s.win, emitted(k1, k2, k3, via)),
                     !.last = via]
  IN IF via = "shift1" THEN shift_one(e, k) ELSE shift_two(e, k)

\* run without the flush.
flush_skipped(s) == [s EXCEPT !.last = "noflush"]

\* flush that tests second_k instead of third_k and closes the window with it.
flush_on_second(s) ==
  IF is_some(s.second_k)
  THEN LET k1 == unwrap(s.first_k)
           k2 == unwrap(s.second_k)
           k3 == IF is_some(s.third_k) THEN unwrap(s.third_k) ELSE k2
       IN [s EXCEPT !.body = push(s.body, parting(k1, k2, k3, s.upward)),
                    !.win = Append(s.win, emitted(k1, k2, k3, "flush")),
                    !.first_k = Some(k2), !.second_k = Some(k3), !.third_k = None,
                    !.last = "flush"]
  ELSE [s EXCEPT !.last = "noflush"]

\* The end-of-stream part of PartingShaper::run. An unwrap of an empty slot
\* panics: the result is then the record with last = "panic".
flush(s) ==
  IF is_some(s.third_k)
  THEN IF is_none(s.first_k) \/ is_none(s.second_k)
       THEN [s EXCEPT !.last = "panic"]
       ELSE
       LET k1 == unwrap(s.first_k)
           k2 == unwrap(s.second_k)
           k3 == unwrap(s.third_k)
           p == [start_ts |-> k1.start_ts, end_ts |-> k3.end_ts,
                 extremum_ts |-> k2.extremum_ts,
                 extremum_price |-> IF s.upward THEN k2.low ELSE k2.high,
                 n |-> k1.n + k2.n + k3.n, top |-> ~s.upward]
       IN [s EXCEPT !.body = push(s.body, p),
                    !.win = Append(s.win, emitted(k1, k2, k3, "flush")),
                    !.first_k = Some(k2), !.second_k = Some(k3), !.third_k = None,
                    !.last = "flush"]
  ELSE [s EXCEPT !.last = "noflush"]

\* The loop of PartingShaper::run over a whole input.
RECURSIVE feed(_, _)
feed(s, seq) == IF seq = <<>> THEN s ELSE feed(consume(s, Head(seq)), Tail(seq))

\* ks_to_pts: the body returned for input seq.
ks_to_pts(seq) == flush(feed(new, seq)).body

\* ---------------------------------------------------------------- state
\* flips and inferred are history: how many times upward changed value, and the
\* direction inferred when slot2 was first filled ("none" until then).
VARIABLES ks, body, first_k, second_k, third_k, upward, pc, last, win, flips, inferred

vars == <<ks, body, first_k, second_k, third_k, upward, pc, last, win, flips, inferred>>

\* The shaper as a record.
Shaper ==
  [body |-> body, first_k |-> first_k, second_k |-> second_k, third_k |-> third_k,
   upward |-> upward, last |-> last, win |-> win]

Store(s) ==
  /\ body' = s.body
  /\ first_k' = s.first_k
  /\ second_k' = s.second_k
  /\ third_k' = s.third_k
  /\ upward' = s.upward
  /\ last' = s.last
  /\ win' = s.win
  /\ flips' = IF s.upward # upward THEN flips + 1 ELSE flips
  /\ inferred' = IF s.last = "second" THEN (IF s.upward THEN "up" ELSE "down")
                 ELSE inferred

\* ks is the input consumed so far; the input ends when Flush is taken.
Init ==
  /\ ks = <<>>
  /\ pc = "run"
  /\ body = new.body
  /\ first_k = new.first_k
  /\ second_k = new.second_k
  /\ third_k = new.third_k
  /\ upward = new.upward
  /\ last = new.last
  /\ win = new.win
  /\ flips = 0
  /\ inferred = "none"

\* One iteration of the loop in run, on a well-formed candle: its timestamp
\* follows the previous one and high >= low.
Consume ==
  /\ pc = "run"
  /\ Len(ks) < MaxLen
  /\ \E high \in 1..MaxPrice, low \in 1..MaxPrice :
       /\ high >= low
       /\ LET k == [ts |-> TsStep * (Len(ks) + 1), high |-> high, low |-> low] IN
          /\ ks' = Append(ks, k)
          /\ Store(consume(Shaper, k))
  /\ pc' = pc

\* One iteration of the loop in run, on a candle nobody validated.
ConsumeAny ==
  /\ pc = "run"
  /\ Len(ks) < MaxLenAny
  /\ \E ts \in 1..MaxTsAny, high \in 1..MaxPriceAny, low \in 1..MaxPriceAny :
       LET k == [ts |-> ts, high |-> high, low |-> low] IN
       /\ ks' = Append(ks, k)
       /\ Store(consume(Shaper, k))
  /\ pc' = pc

\* The end of run: the loop is over, the flush runs and run returns.
Flush ==
  /\ pc = "run"
  /\ LET s == flush(Shaper) IN
     /\ Store(s)
     /\ pc' = IF s.last = "panic" THEN "panic" ELSE "done"
  /\ ks' = ks

Next == Consume \/ Flush

Spec == Init /\ [][Next]_vars

NextAny == ConsumeAny \/ Flush

SpecAny == Init /\ [][NextAny]_vars

\* ---------------------------------------------------------------- claims
\* Candle i+1 is strictly above candle i in both high and low.
Up(seq, i) == seq[i].high < seq[i+1].high /\ seq[i].low < seq[i+1].low
\* Candle i+1 is strictly below candle i in both high and low.
Down(seq, i) == seq[i].high > seq[i+1].high /\ seq[i].low > seq[i+1].low

\* seq rises strictly up to index p and falls strictly after it.
RiseThenFall(seq, p) ==
  /\ \A i \in 1..(p - 1) : Up(seq, i)
  /\ \A i \in p..(Len(seq) - 1) : Down(seq, i)
FallThenRise(seq, p) ==
  /\ \A i \in 1..(p - 1) : Down(seq, i)
  /\ \A i \in p..(Len(seq) - 1) : Up(seq, i)

\* The one Parting the reversal at index p must give.
OnlyParting(p, top, price) ==
  /\ Len(body) = 1
  /\ body[1].top = top
  /\ body[1].extremum_price = price
  /\ body[1].extremum_ts = ks[p].ts
  /\ body[1].start_ts = ks[p-1].ts
  /\ body[1].end_ts = ks[p+1].ts

\* C1: an input that rises strictly (highs and lows) to a peak at index p, with
\* at least one candle before it, and then falls strictly for at least one
\* candle gives exactly one Parting: a top at the peak's high and timestamp,
\* spanning candles p-1..p+1; a fall-then-rise input gives the one bottom.
C1_SingleReversal ==
  pc = "done" =>
    \A p \in 2..(Len(ks) - 1) :
      /\ RiseThenFall(ks, p) => OnlyParting(p, TRUE, ks[p].high)
      /\ FallThenRise(ks, p) => OnlyParting(p, FALSE, ks[p].low)

C1_Witness ==
  /\ pc = "done"
  /\ Len(ks) = 5
  /\ RiseThenFall(ks, 3)
  /\ Len(body) = 1
  /\ last = "noflush"

\* C2: while the input is strictly rising, or strictly falling, in both high
\* and low, no Parting is emitted and the third slot stays empty, at every
\* step and after the flush; the empty input included.
C2_NoPartingOnMonotonicRun ==
  ((\A i \in 1..(Len(ks) - 1) : Up(ks, i)) \/ (\A i \in 1..(Len(ks) - 1) : Down(ks, i)))
    => (body = <<>> /\ is_none(third_k))

C2_Witness ==
  /\ pc = "done"
  /\ Len(ks) = 4
  /\ \A i \in 1..3 : Up(ks, i)
  /\ body = <<>>

\* Longest input S the insertion comparison of C3 is made for.
MaxInsLen == 4

\* The newest filled slot of shaper s (None when the window is empty).
newest(s) ==
  IF is_some(s.third_k) THEN s.third_k
  ELSE IF is_some(s.second_k) THEN s.second_k ELSE s.first_k

\* seq with candle c put after its first j candles.
Inserted(seq, j, c) == SubSeq(seq, 1, j) \o <<c>> \o SubSeq(seq, j + 1, Len(seq))

\* The candles that can be put after the first j candles of ks and whose range
\* lies inside the range of the newest filled slot at that point.
Dominated(j) ==
  LET s == feed(new, SubSeq(ks, 1, j)) IN
  IF is_none(newest(s)) THEN {}
  ELSE LET a == unwrap(newest(s)) IN
       {c \in [ts : {TsStep * j + 1}, high : 1..MaxPrice, low : 1..MaxPrice] :
          c.high >= c.low /\ a.high >= c.high /\ a.low <= c.low}

\* Dominated candles that also leave the merged range as it was: they share
\* the slot's low while upward, the slot's high while downward.
RangeKeeping(j) ==
  LET s == feed(new, SubSeq(ks, 1, j)) IN
  {c \in Dominated(j) :
     LET a == unwrap(newest(s)) IN
     IF s.upward THEN c.low = a.low ELSE c.high = a.high}

\* q is p up to a later end_ts and a count larger by one.
SameParting(p, q) ==
  /\ q.start_ts = p.start_ts
  /\ q.extremum_ts = p.extremum_ts
  /\ q.extremum_price = p.extremum_price
  /\ q.top = p.top
  /\ q.end_ts >= p.end_ts
  /\ q.n \in {p.n, p.n + 1}

SamePartings(b1, b2) ==
  /\ Len(b1) = Len(b2)
  /\ \A i \in 1..Len(b1) : SameParting(b1[i], b2[i])

\* C3 as claimed: putting a candle whose range lies inside the newest filled
\* slot anywhere into the input leaves the Partings as they were, up to a
\* later end_ts and a count larger by one.
C3_Original ==
  (pc = "done" /\ Len(ks) <= MaxInsLen) =>
    \A j \in 0..Len(ks) : \A c \in Dominated(j) :
      SamePartings(body, ks_to_pts(Inserted(ks, j, c)))

\* C3 as amended: the same holds for a dominated candle that keeps the merged
\* range of the slot: one that shares the slot's low while upward is true and
\* the slot's high while upward is false.
C3_RangeKeepingInsertion ==
  (pc = "done" /\ Len(ks) <= MaxInsLen) =>
    \A j \in 0..Len(ks) : \A c \in RangeKeeping(j) :
      SamePartings(body, ks_to_pts(Inserted(ks, j, c)))

\* A range-keeping candle put into the third slot of a window whose Parting is
\* then emitted with the later end_ts and the larger count.
C3_Witness ==
  /\ pc = "done"
  /\ Len(ks) = 4
  /\ Len(body) = 2
  /\ \E c \in RangeKeeping(3) :
       LET b == ks_to_pts(Inserted(ks, 3, c)) IN
       /\ feed(new, Inserted(ks, 3, c)).last = "shift1"
       /\ b[1].end_ts > body[1].end_ts
       /\ b[1].n = body[1].n + 1

\* C4 as claimed: a Parting emitted on the shift-by-two branch ends before the
\* next Parting starts.
C4_Original ==
  \A i \in 1..(Len(body) - 1) :
    win[i].via = "shift2" => body[i].end_ts < body[i+1].start_ts

\* C4 as amended: after a shift-by-two emission of P the next Parting Q starts
\* no earlier than P's third merged candle, which is slot1 of the restarted
\* window: Q starts after P's extremum and ends after P ends, and the two
\* spans share at most that third merged candle.
C4_NextStartsInsideThird ==
  \A i \in 1..(Len(body) - 1) :
    win[i].via = "shift2" =>
      /\ win[i].k3.start_ts <= body[i+1].start_ts
      /\ body[i].extremum_ts < body[i+1].start_ts
      /\ body[i].end_ts < body[i+1].end_ts

\* A shift-by-two emission followed by a Parting that starts inside it.
C4_Witness ==
  /\ Len(body) = 2
  /\ win[1].via = "shift2"
  /\ body[2].start_ts <= body[1].end_ts

\* C5: any two consecutive Partings of the output have opposite top values.
C5_AlternatingPolarity ==
  \A i \in 1..(Len(body) - 1) : body[i].top # body[i+1].top

\* A shift-by-two emission followed by the Parting of the flush.
C5_Witness ==
  /\ pc = "done"
  /\ Len(body) = 2
  /\ win[1].via = "shift2"
  /\ win[2].via = "flush"
  /\ body[1].top /\ ~body[2].top

\* C6: the flush appends exactly the Parting of the current window when the
\* third slot is filled, and nothing when it is empty.
C6_FlushAppendsWindow ==
  [][(pc = "run" /\ pc' # "run") =>
       IF third_k # <<>>
       THEN body' = Append(body,
              [start_ts |-> first_k[1].start_ts,
               end_ts |-> third_k[1].end_ts,
               extremum_ts |-> second_k[1].extremum_ts,
               extremum_price |-> IF upward THEN second_k[1].low ELSE second_k[1].high,
               n |-> first_k[1].n + second_k[1].n + third_k[1].n,
               top |-> ~upward])
       ELSE body' = body]_vars

\* An input of three candles that ends on the third candle of a fractal.
C6_Witness ==
  /\ pc = "done"
  /\ last = "flush"
  /\ Len(ks) = 3
  /\ Len(body) = 1
  /\ body[1].end_ts = ks[3].ts

\* C7: the Partings of the output are in non-decreasing start_ts order.
C7_StartTsOrdered ==
  \A i \in 1..(Len(body) - 1) : body[i].start_ts <= body[i+1].start_ts

\* Two Partings, the second from the flush, with different start_ts.
C7_Witness ==
  /\ pc = "done"
  /\ last = "flush"
  /\ Len(body) = 2
  /\ body[1].start_ts < body[2].start_ts

\* The raw candles whose timestamp lies in [from, to].
RawIn(from, to) == {j \in 1..Len(ks) : from <= ks[j].ts /\ ks[j].ts <= to}

\* Parting p dominates the raw candles J: no higher high under a top, no lower
\* low under a bottom.
Dominates(p, J) ==
  \A j \in J : IF p.top THEN p.extremum_price >= ks[j].high
                        ELSE p.extremum_price <= ks[j].low

\* C8 as claimed: a Parting dominates every raw candle of its span.
C8_Original ==
  \A i \in 1..Len(body) : Dominates(body[i], RawIn(body[i].start_ts, body[i].end_ts))

\* C8 as amended: a Parting dominates every raw candle absorbed into its
\* middle merged candle (those with timestamps in [slot2.start_ts,
\* slot2.end_ts]), and is strictly beyond the merged high (top) or merged low
\* (bottom) of slot1 and slot3.
C8_MiddleCandleExtremum ==
  \A i \in 1..Len(body) :
    /\ Dominates(body[i], RawIn(win[i].k2.start_ts, win[i].k2.end_ts))
    /\ IF body[i].top
       THEN body[i].extremum_price > win[i].k1.high /\ body[i].extremum_price > win[i].k3.high
       ELSE body[i].extremum_price < win[i].k1.low /\ body[i].extremum_price < win[i].k3.low

\* A Parting whose middle merged candle absorbed a second raw candle.
C8_Witness ==
  /\ pc = "done"
  /\ Len(body) >= 1
  /\ win[1].k2.n >= 2
  /\ win[1].k2.extremum_ts > win[1].k2.start_ts

\* C9: no input, well-formed or not, makes run unwrap an empty slot: run
\* never panics, and whenever the third slot is filled so are the other two.
C9_Total ==
  /\ pc \in {"run", "done"}
  /\ is_some(third_k) => (is_some(first_k) /\ is_some(second_k))

\* run returned Ok with a flushed Parting on an input with a repeated
\* timestamp and a candle whose high is below its low.
C9_Witness ==
  /\ pc = "done"
  /\ last = "flush"
  /\ body # <<>>
  /\ \E i \in 1..(Len(ks) - 1) : ks[i+1].ts <= ks[i].ts
  /\ \E i \in 1..Len(ks) : ks[i].high < ks[i].low

\* C10: every step leaves the Partings already emitted as they are and
\* appends at most one; a consume with the third slot empty appends none.
C10_OutputNeverRevised ==
  [][/\ Len(body') \in {Len(body), Len(body) + 1}
     /\ SubSeq(body', 1, Len(body)) = body
     /\ (ks' # ks /\ third_k = <<>>) => body' = body]_vars

\* Three Partings, appended one at a time.
C10_Witness ==
  /\ pc = "done"
  /\ Len(body) = 3

\* The candle consumed by the step (defined on steps with ks' # ks).
Incoming == ks'[Len(ks')]

\* Merged candle a and raw candle k stand in an inclusion relation.
Includes(a, k) ==
  (a.high >= k.high /\ a.low <= k.low) \/ (k.high >= a.high /\ k.low <= a.low)

\* The step consumes a candle with all three slots filled.
ConsumesOnFullWindow == ks' # ks /\ first_k # <<>> /\ second_k # <<>> /\ third_k # <<>>

\* C11: with all three slots filled, a candle that does not merge into slot3
\* and goes below slot3's low (upward) or above slot3's high (downward) makes
\* consume emit the Parting of the window and move the window to (old slot2,
\* old slot3, the candle) with upward negated; the Parting emitted next starts
\* at old slot2.start_ts, has old slot3.extremum_ts and the opposite top.
C11_ShiftByOneChaining ==
  [][/\ (/\ ConsumesOnFullWindow
         /\ ~Includes(third_k[1], Incoming)
         /\ \/ upward /\ Incoming.low < third_k[1].low
            \/ ~upward /\ Incoming.high > third_k[1].high)
        => /\ body' = Append(body,
                [start_ts |-> first_k[1].start_ts, end_ts |-> third_k[1].end_ts,
                 extremum_ts |-> second_k[1].extremum_ts,
                 extremum_price |-> IF upward THEN second_k[1].low ELSE second_k[1].high,
                 n |-> first_k[1].n + second_k[1].n + third_k[1].n, top |-> ~upward])
           /\ first_k' = second_k
           /\ second_k' = third_k
           /\ third_k' = <<[start_ts |-> Incoming.ts, end_ts |-> Incoming.ts,
                            extremum_ts |-> Incoming.ts, high |-> Incoming.high,
                            low |-> Incoming.low, n |-> 1]>>
           /\ upward' = ~upward
     /\ \A i \in 1..(Len(body') - 1) :
          win'[i].via = "shift1" =>
            /\ body'[i+1].start_ts = win'[i].k2.start_ts
            /\ body'[i+1].extremum_ts = win'[i].k3.extremum_ts
            /\ body'[i+1].top # body'[i].top]_vars

\* A shift-by-one emission followed by a second Parting emitted by consume;
\* the two share the merged candles old slot2 and old slot3.
C11_Witness ==
  /\ pc = "run"
  /\ Len(body) = 2
  /\ win[1].via = "shift1"
  /\ win[2].k1 = win[1].k2
  /\ win[2].k2 = win[1].k3
  /\ body[2].start_ts = win[1].k2.start_ts

\* C12: with all three slots filled, a candle in an inclusion relation with
\* slot3 emits nothing and leaves slot1, slot2, upward and the output alone;
\* slot3 alone is replaced, ending at the candle and counting one more. A
\* Parting therefore ends at the timestamp of the last candle absorbed into
\* slot3, the candle consumed before the one that triggers the emission.
C12_MergeIntoThirdDefers ==
  [][/\ (ConsumesOnFullWindow /\ Includes(third_k[1], Incoming))
        => /\ body' = body
           /\ first_k' = first_k
           /\ second_k' = second_k
           /\ upward' = upward
           /\ third_k' # <<>>
           /\ third_k'[1].start_ts = third_k[1].start_ts
           /\ third_k'[1].end_ts = Incoming.ts
           /\ third_k'[1].n = third_k[1].n + 1
     /\ Len(body') > Len(body) => body'[Len(body')].end_ts = ks[Len(ks)].ts]_vars

\* The flushed Parting of an input whose last candle was absorbed into slot3
\* although its high reaches the high of slot2.
C12_Witness ==
  /\ pc = "done"
  /\ last = "flush"
  /\ Len(body) = 1
  /\ body[1].top
  /\ win[1].k3.n = 2
  /\ body[1].end_ts = ks[Len(ks)].ts
  /\ ks[Len(ks)].high >= win[1].k2.high

\* C13: the filled slots form a prefix of (first_k, second_k, third_k) and are
\* disjoint and ordered in time, after every consume and after the flush.
C13_WindowWellFormed ==
  /\ is_some(third_k) => is_some(second_k)
  /\ is_some(second_k) => is_some(first_k)
  /\ is_some(second_k) => first_k[1].end_ts < second_k[1].start_ts
  /\ is_some(third_k) => second_k[1].end_ts < third_k[1].start_ts

\* A full window whose first two slots are merged candles.
C13_Witness ==
  /\ pc = "run"
  /\ is_some(third_k)
  /\ first_k[1].n = 2
  /\ second_k[1].n = 2
  /\ first_k[1].end_ts < second_k[1].start_ts
  /\ second_k[1].end_ts < third_k[1].start_ts

\* C14 as claimed: at the end of a run upward has changed value as many times
\* as Partings were emitted.
C14_Original ==
  pc = "done" => flips = Len(body)

\* C14 as amended: upward changes value once per emitted Parting, and once
\* more when the direction inferred at the first filling of slot2 is downward.
C14_FlipsPerParting ==
  pc = "done" => flips = Len(body) + (IF inferred = "down" THEN 1 ELSE 0)

\* A run that starts downward and emits two Partings: three changes.
C14_Witness ==
  /\ pc = "done"
  /\ inferred = "down"
  /\ Len(body) = 2
  /\ flips = 3

\* Bounds of the merger specification SpecMerge: prices, timestamps and counts
\* of the merged candle A and the raw candle B.
MaxPriceMerge == 3
MaxTsMerge == 2
MaxCountMerge == 2

\* One call of inclusive_neighbor_k on arbitrary arguments: first_k holds the
\* merged candle A, ks the raw candle B, upward the direction D; the Option
\* returned is kept in second_k.
InitMerge ==
  /\ pc = "merge"
  /\ first_k \in {Some(a) : a \in [start_ts : 1..MaxTsMerge, end_ts : 1..MaxTsMerge,
                                   extremum_ts : 1..MaxTsMerge,
                                   high : 1..MaxPriceMerge, low : 1..MaxPriceMerge,
                                   n : 1..MaxCountMerge]}
  /\ ks \in {<<b>> : b \in [ts : 1..MaxTsMerge, high : 1..MaxPriceMerge,
                            low : 1..MaxPriceMerge]}
  /\ upward \in BOOLEAN
  /\ second_k = None
  /\ third_k = None
  /\ body = <<>>
  /\ last = "new"
  /\ win = <<>>
  /\ flips = 0
  /\ inferred = "none"

Merge ==
  /\ pc = "merge"
  /\ second_k' = inclusive_neighbor_k(unwrap(first_k), ks[1], upward)
  /\ pc' = "merged"
  /\ UNCHANGED <<ks, body, first_k, third_k, upward, last, win, flips, inferred>>

NextMerge == Merge

SpecMerge == InitMerge /\ [][NextMerge]_vars

Max(x, y) == IF x >= y THEN x ELSE y
Min(x, y) == IF x <= y THEN x ELSE y

\* C15: inclusive_neighbor_k(A, B, D) is None exactly when neither range
\* contains the other (bounds compared non-strictly); otherwise it is the
\* merged candle from A.start_ts to B.ts counting A.n + 1, with A's
\* extremum_ts if A contains B and B.ts otherwise, and with the larger high
\* and larger low when D is upward, the smaller high and smaller low when not.
C15_MergerContract ==
  pc = "merged" =>
    LET A == first_k[1]
        B == ks[1]
        AinB == B.high >= A.high /\ B.low <= A.low
        BinA == A.high >= B.high /\ A.low <= B.low
    IN /\ (second_k = <<>>) <=> (~AinB /\ ~BinA)
       /\ second_k # <<>> =>
            second_k[1] =
              [start_ts |-> A.start_ts, end_ts |-> B.ts, n |-> A.n + 1,
               extremum_ts |-> IF BinA THEN A.extremum_ts ELSE B.ts,
               high |-> IF upward THEN Max(A.high, B.high) ELSE Min(A.high, B.high),
               low |-> IF upward THEN Max(A.low, B.low) ELSE Min(A.low, B.low)]

\* Two candles with the same range, high above low, merged downward.
C15_Witness ==
  /\ pc = "merged"
  /\ ~upward
  /\ first_k[1].high = ks[1].high
  /\ first_k[1].low = ks[1].low
  /\ ks[1].high > ks[1].low
  /\ second_k # <<>>
  /\ second_k[1].extremum_ts = first_k[1].extremum_ts
  /\ first_k[1].extremum_ts # ks[1].ts

\* C16: the raw candle at a Parting's extremum_ts defines its price: its high
\* is extremum_price under a top, its low under a bottom.
C16_ExtremumTsDefinesPrice ==
  \A i \in 1..Len(body) :
    /\ \E j \in 1..Len(ks) : ks[j].ts = body[i].extremum_ts
    /\ \A j \in 1..Len(ks) :
         ks[j].ts = body[i].extremum_ts =>
           IF body[i].top THEN ks[j].high = body[i].extremum_price
                          ELSE ks[j].low = body[i].extremum_price

\* A bottom whose middle merged candle took its extremum from the second
\* candle it absorbed.
C16_Witness ==
  /\ pc = "done"
  /\ Len(body) >= 1
  /\ ~body[1].top
  /\ win[1].k2.n = 2
  /\ body[1].extremum_ts = win[1].k2.end_ts

\* C17: at every emission the middle merged candle is strictly beyond both
\* neighbours on both bounds: above them under a top, below under a bottom.
C17_GenuineFractal ==
  \A i \in 1..Len(body) :
    LET w == win[i] IN
    IF body[i].top
    THEN /\ w.k2.high > w.k1.high /\ w.k2.high > w.k3.high
         /\ w.k2.low > w.k1.low /\ w.k2.low > w.k3.low
    ELSE /\ w.k2.low < w.k1.low /\ w.k2.low < w.k3.low
         /\ w.k2.high < w.k1.high /\ w.k2.high < w.k3.high

\* A top and a bottom in one output, the first built from merged candles.
C17_Witness ==
  /\ Len(body) = 2
  /\ body[1].top
  /\ ~body[2].top
  /\ win[1].k1.n + win[1].k2.n + win[1].k3.n >= 4

\* C18: every Parting has start_ts < extremum_ts < end_ts and n >= 3.
C18_TimestampsOrdered ==
  \A i \in 1..Len(body) :
    /\ body[i].start_ts < body[i].extremum_ts
    /\ body[i].extremum_ts < body[i].end_ts
    /\ body[i].n >= 3

\* A Parting of four or more candles emitted by consume.
C18_Witness ==
  /\ pc = "run"
  /\ Len(body) = 1
  /\ body[1].n >= 4
  /\ body[1].start_ts < body[1].extremum_ts
  /\ win[1].via # "flush"

\* C19: an input of n candles gives at most max(0, n - 2) Partings, and consume
\* alone at most max(0, n - 3): none before the fourth candle.
C19_CountBound ==
  /\ Len(body) <= Max(0, Len(ks) - 2)
  /\ pc = "run" => Len(body) <= Max(0, Len(ks) - 3)

\* The bound met: five candles, three Partings.
C19_Witness ==
  /\ pc = "done"
  /\ Len(ks) = 5
  /\ Len(body) = Len(ks) - 2
  /\ last = "flush"

\* C20: on the shift-by-two branch the assignment upward = (k.high >
\* slot3.high) leaves upward as it was; across an emission by consume upward
\* changes only on the shift-by-one branch.
C20_RederivationNoOp ==
  [][/\ (ks' # ks /\ last' = "shift2")
        => /\ (Incoming.high > third_k[1].high) = upward
           /\ upward' = upward
     /\ (ks' # ks /\ Len(body') > Len(body) /\ upward' # upward) => last' = "shift1"]_vars

\* A top emitted on the shift-by-two branch, upward still false after it.
C20_Witness ==
  /\ pc = "run"
  /\ last = "shift2"
  /\ Len(body) = 1
  /\ body[1].top
  /\ ~upward

====
